---- MODULE Spec2Model ----
(***************************************************************************)
(* fr33zmenu: the interaction loop (main.rs), the key-event state machine  *)
(* (keybinds.rs), the ranking of entries (util.rs) and the State record    *)
(* (state.rs).                                                             *)
(*                                                                         *)
(* A string is a sequence of Unicode code points; its length and the       *)
(* input cursor are counted in UTF-8 bytes, as String::len,                *)
(* String::insert and str::char_indices count them.                        *)
(***************************************************************************)
EXTENDS Integers, Sequences, FiniteSets, TLC

VARIABLES
    state,       \* interact: `state`, the State threaded through the loop
    last_state,  \* interact: `last_state`, the clone the last iteration took at its head
    first,       \* interact: `first`
    rows,        \* terminal height, what terminal::size() reports (.1)
    transient,   \* args.transient
    menu_total,  \* config.menus.len()
    event,       \* the event the last cycle read
    status,      \* "running", or how interact ended
    result,      \* the String interact returned
    error,       \* the message of the error interact ended with
    drawn,       \* the last cycle called draw and flushed
    erased,      \* the last cycle executed Clear(ClearType::All)
    call,        \* a call of a function of util.rs or draw.rs taken alone: its arguments
    ret          \* what that call returned or queued

vars == <<state, last_state, first, rows, transient, menu_total, event,
          status, result, error, drawn, erased, call, ret>>

----------------------------------------------------------------------------
(* Bounds of the model *)

\* the fallback insertion is modelled up to this many characters of input
MaxInput == 2
\* the tallest terminal modelled
MaxRows == 8
\* the largest configuration modelled holds MaxMenus pages
MaxMenus == 3
\* the entries of a list handed to match_entries alone
MaxEntries == 3
\* the entries of a page handed to the renderer alone
MaxCandidates == 9
\* the terminal heights the renderer is run on: 0..MaxHeight
MaxHeight == 10
\* the terminal widths draw_entry is run on: 0..MaxWidth
MaxWidth == 9
\* the characters of a name handed to draw_entry
MaxNameLen == 3
\* the characters of a value handed to draw_entry
MaxValueLen == 6

----------------------------------------------------------------------------
(* Characters and strings *)

\* Characters are code points: 97 'a', 98 'b', 65 'A', 66 'B', and two
\* characters of two bytes in UTF-8: 233 'e' with acute accent and 201 'E'
\* with acute accent.

\* char::len_utf8
len_utf8(c) ==
    IF c < 128 THEN 1 ELSE IF c < 2048 THEN 2 ELSE IF c < 65536 THEN 3 ELSE 4

\* u8::to_ascii_lowercase, on a character
ascii_lower(c) == IF c >= 65 /\ c <= 90 THEN c + 32 ELSE c

\* char::to_lowercase, on ASCII and Latin-1 letters
char_lower(c) ==
    IF (c >= 65 /\ c <= 90) \/ (c >= 192 /\ c <= 222 /\ c # 215) THEN c + 32 ELSE c

\* str::to_lowercase
to_lowercase(s) == [i \in 1..Len(s) |-> char_lower(s[i])]

RECURSIVE str_len(_)
\* String::len: the length in bytes
str_len(s) == IF s = <<>> THEN 0 ELSE len_utf8(Head(s)) + str_len(Tail(s))

\* the byte offset of the i-th character (1-based), as char_indices yields it
byte_index(s, i) == str_len(SubSeq(s, 1, i - 1))

\* str::is_char_boundary
is_char_boundary(s, idx) ==
    \/ idx = 0
    \/ idx = str_len(s)
    \/ \E i \in 1..Len(s) : byte_index(s, i) = idx

\* String::insert(idx, c) where idx is a character boundary
str_insert(s, idx, c) ==
    LET k == Cardinality({i \in 1..Len(s) : byte_index(s, i) < idx})
    IN  SubSeq(s, 1, k) \o <<c>> \o SubSeq(s, k + 1, Len(s))

RECURSIVE filter_chars(_, _, _)
\* char_indices().filter_map(|(i, c)| if (i as u16) == x { None } else { Some(c) })
\* over the characters from the i-th on
filter_chars(s, i, x) ==
    IF i > Len(s) THEN <<>>
    ELSE IF (byte_index(s, i) % 65536) = x
         THEN filter_chars(s, i + 1, x)
         ELSE <<s[i]>> \o filter_chars(s, i + 1, x)

RECURSIVE seq_less(_, _)
\* the lexicographic order of Vec<usize> and of the characters of a String
seq_less(a, b) ==
    IF b = <<>> THEN FALSE
    ELSE IF a = <<>> THEN TRUE
    ELSE IF Head(a) # Head(b) THEN Head(a) < Head(b)
    ELSE seq_less(Tail(a), Tail(b))

u16_max == 65535
saturating_add_u16(x) == IF x >= u16_max THEN u16_max ELSE x + 1
saturating_sub(x) == IF x = 0 THEN 0 ELSE x - 1
min(a, b) == IF a <= b THEN a ELSE b
max(a, b) == IF a >= b THEN a ELSE b

----------------------------------------------------------------------------
(* state.rs *)

Actions == {"None", "Exit", "Clear", "Submit"}

\* State::default() with menu_count set (main.rs, interact)
DefaultState(n) ==
    [input |-> <<>>, action |-> "None", cursor_x |-> 0, entry_cursor |-> FALSE,
     entry_count |-> 0, entry_index |-> 0, menu_count |-> n, menu_index |-> 0]

\* Result<State>
Ok(s) == [tag |-> "Ok", state |-> s, msg |-> ""]
Err(s, m) == [tag |-> "Err", state |-> s, msg |-> m]
\* a panic of the Rust runtime (the process aborts)
Panic(s, m) == [tag |-> "Panic", state |-> s, msg |-> m]

----------------------------------------------------------------------------
(* keybinds.rs: key events and key patterns *)

\* KeyCode: a kind and, for KeyCode::Char, the character
Key(kind) == [kind |-> kind, ch |-> 0]
Char(c) == [kind |-> "Char", ch |-> c]

\* KeyModifiers bits (crossterm): SHIFT 1, CONTROL 2, ALT 4
NoMod == {}
Shift == {1}
Control == {2}

RECURSIVE bits(_)
\* KeyModifiers::bits
bits(m) == IF m = {} THEN 0 ELSE LET b == CHOOSE x \in m : TRUE IN b + bits(m \ {b})

\* KeyEvent / Keybind(KeyCode, KeyModifiers)
KeyEvent(code, mods) == [code |-> code, mods |-> mods]

\* Keybind::matches
matches(kb, ev) ==
    /\ ev.mods = kb.mods
    /\ kb.code = IF ev.code.kind = "BackTab" THEN Key("Tab") ELSE ev.code

\* Keybinds: the table of the configuration modelled. Tab with no modifier is
\* bound to entry_next and to menu_next, Ctrl+b to clear and to delete_back.
Keybinds ==
    [exit        |-> {KeyEvent(Key("Esc"), NoMod)},
     submit      |-> {KeyEvent(Key("Enter"), NoMod)},
     clear       |-> {KeyEvent(Char(98), Control)},
     delete_next |-> {KeyEvent(Key("Delete"), NoMod)},
     delete_back |-> {KeyEvent(Key("Backspace"), NoMod), KeyEvent(Char(98), Control)},
     input_next  |-> {KeyEvent(Key("Right"), NoMod)},
     input_back  |-> {KeyEvent(Key("Left"), NoMod)},
     entry_next  |-> {KeyEvent(Key("Tab"), NoMod)},
     entry_back  |-> {KeyEvent(Key("Up"), NoMod)},
     menu_next   |-> {KeyEvent(Key("Tab"), NoMod), KeyEvent(Key("PageDown"), NoMod)},
     menu_back   |-> {KeyEvent(Key("Tab"), Shift)}]

\* the order in which Keybinds::handle hands the binds to handle_key_event!
BindOrder ==
    <<"exit", "submit", "clear", "delete_next", "delete_back", "input_next",
      "input_back", "entry_next", "entry_back", "menu_next", "menu_back">>

\* the key events the terminal delivers in the model: one for every bind,
\* the characters 'a' and (with shift) 'E' with acute accent, and two events
\* no bind matches
KeyEvents ==
    {KeyEvent(Key("Esc"), NoMod), KeyEvent(Key("Enter"), NoMod),
     KeyEvent(Char(98), Control),
     KeyEvent(Key("Delete"), NoMod), KeyEvent(Key("Backspace"), NoMod),
     KeyEvent(Key("Right"), NoMod), KeyEvent(Key("Left"), NoMod),
     KeyEvent(Key("Tab"), NoMod), KeyEvent(Key("Up"), NoMod),
     KeyEvent(Key("PageDown"), NoMod), KeyEvent(Key("BackTab"), Shift),
     KeyEvent(Key("F1"), NoMod), KeyEvent(Char(97), {2, 4}),
     KeyEvent(Char(97), NoMod), KeyEvent(Char(201), Shift)}

----------------------------------------------------------------------------
(* keybinds.rs: the handlers *)

\* an exit handler that leaves the pending action alone
exit_no_action(s) == Ok(s)

exit(s) == Ok([s EXCEPT !.action = "Exit"])

submit(s) == Ok([s EXCEPT !.action = "Submit"])

\* a clear that also takes the selected index back to 0
clear_resets_index(s) ==
    Ok([s EXCEPT !.input = <<>>, !.cursor_x = 0, !.entry_cursor = FALSE, !.entry_index = 0])

clear(s) == Ok([s EXCEPT !.input = <<>>, !.cursor_x = 0, !.entry_cursor = FALSE])

delete_next(s) ==
    Ok([s EXCEPT !.entry_cursor = FALSE,
                 !.input = filter_chars(s.input, 1, s.cursor_x)])

\* delete_back without the early return at cursor 0
delete_back_unguarded(s) ==
    LET cursor_x == saturating_sub(s.cursor_x)
    IN  Ok([s EXCEPT !.entry_cursor = FALSE,
                     !.input = filter_chars(s.input, 1, cursor_x),
                     !.cursor_x = cursor_x])

delete_back(s) ==
    IF s.cursor_x = 0 THEN Ok(s)
    ELSE LET cursor_x == saturating_sub(s.cursor_x)
         IN  Ok([s EXCEPT !.entry_cursor = FALSE,
                          !.input = filter_chars(s.input, 1, cursor_x),
                          !.cursor_x = cursor_x])

\* input_next without the clamp to the length of the input
input_next_unclamped(s) == Ok([s EXCEPT !.cursor_x = saturating_add_u16(s.cursor_x)])

input_next(s) ==
    IF str_len(s.input) > u16_max THEN Err(s, "out of range integral type conversion")
    ELSE Ok([s EXCEPT !.cursor_x =
                 min(str_len(s.input), saturating_add_u16(s.cursor_x))])

input_back(s) == Ok([s EXCEPT !.cursor_x = max(0, saturating_sub(s.cursor_x))])

\* entry_next without the remainder by the selectable count
entry_next_no_wrap(s) ==
    IF s.entry_count = 0 THEN Ok(s)
    ELSE Ok([s EXCEPT !.entry_cursor = TRUE,
                      !.entry_index = IF s.entry_cursor THEN s.entry_index + 1 ELSE 0])

entry_next(s) ==
    IF s.entry_count = 0 THEN Ok(s)
    ELSE Ok([s EXCEPT !.entry_cursor = TRUE,
                      !.entry_index = IF s.entry_cursor
                                      THEN (s.entry_index + 1) % s.entry_count
                                      ELSE 0])

\* entry_back without the jump from index 0 to the last index
entry_back_no_wrap(s) ==
    IF s.entry_count = 0 THEN Ok(s)
    ELSE Ok([s EXCEPT !.entry_cursor = TRUE,
                      !.entry_index = IF s.entry_cursor
                                      THEN saturating_sub(s.entry_index) % s.entry_count
                                      ELSE s.entry_count - 1])

\* entry_back that goes to the selectable count, one past the last index
entry_back_from_count(s) ==
    IF s.entry_count = 0 THEN Ok(s)
    ELSE Ok([s EXCEPT !.entry_cursor = TRUE,
                      !.entry_index = IF s.entry_cursor /\ s.entry_index # 0
                                      THEN saturating_sub(s.entry_index) % s.entry_count
                                      ELSE s.entry_count])

entry_back(s) ==
    IF s.entry_count = 0 THEN Ok(s)
    ELSE Ok([s EXCEPT !.entry_cursor = TRUE,
                      !.entry_index = IF s.entry_cursor /\ s.entry_index # 0
                                      THEN saturating_sub(s.entry_index) % s.entry_count
                                      ELSE s.entry_count - 1])

\* menu_next that leaves the selected index as it is
menu_next_keeps_index(s) ==
    IF s.menu_count = 0 THEN Err(s, "zero menus")
    ELSE Ok([s EXCEPT !.input = <<>>, !.cursor_x = 0, !.entry_cursor = FALSE,
                      !.menu_index = (s.menu_index + 1) % s.menu_count])

\* menu_next without the remainder by the page count
menu_next_no_wrap(s) ==
    IF s.menu_count = 0 THEN Err(s, "zero menus")
    ELSE Ok([s EXCEPT !.input = <<>>, !.cursor_x = 0, !.entry_cursor = FALSE,
                      !.entry_index = 0,
                      !.menu_index = s.menu_index + 1])

menu_next(s) ==
    IF s.menu_count = 0 THEN Err(s, "zero menus")
    ELSE Ok([s EXCEPT !.input = <<>>, !.cursor_x = 0, !.entry_cursor = FALSE,
                      !.entry_index = 0,
                      !.menu_index = (s.menu_index + 1) % s.menu_count])

menu_back(s) ==
    IF s.menu_count = 0 THEN Err(s, "zero menus")
    ELSE Ok([s EXCEPT !.input = <<>>, !.cursor_x = 0, !.entry_cursor = FALSE,
                      !.entry_index = 0,
                      !.menu_index = saturating_sub(s.menu_index) % s.menu_count])

\* String::insert panics when idx is past the end or inside a character
fallback_handler(s, ev) ==
    IF ev.code.kind = "Char" /\ bits(ev.mods) <= 1
    THEN IF s.cursor_x > str_len(s.input) \/ ~is_char_boundary(s.input, s.cursor_x)
         THEN Panic(s, "assertion failed: self.is_char_boundary(idx)")
         ELSE Ok([s EXCEPT !.input = str_insert(s.input, s.cursor_x, ev.code.ch),
                           !.cursor_x = saturating_add_u16(s.cursor_x),
                           !.entry_cursor = FALSE,
                           !.entry_index = 0])
    ELSE Ok(s)

\* Keybinds::$bind($state)
call_bind(b, s) ==
    CASE b = "exit" -> exit(s)
      [] b = "submit" -> submit(s)
      [] b = "clear" -> clear(s)
      [] b = "delete_next" -> delete_next(s)
      [] b = "delete_back" -> delete_back(s)
      [] b = "input_next" -> input_next(s)
      [] b = "input_back" -> input_back(s)
      [] b = "entry_next" -> entry_next(s)
      [] b = "entry_back" -> entry_back(s)
      [] b = "menu_next" -> menu_next(s)
      [] b = "menu_back" -> menu_back(s)

RECURSIVE last_match(_, _)
\* a dispatch that goes on after a match and calls the last bind that matches
last_match(ev, i) ==
    IF i > Len(BindOrder) THEN ""
    ELSE LET later == last_match(ev, i + 1)
         IN  IF later # "" THEN later
             ELSE IF \E kb \in Keybinds[BindOrder[i]] : matches(kb, ev) THEN BindOrder[i]
             ELSE ""

RECURSIVE first_match(_, _)
\* handle_key_event!: the `if` of the i-th bind of the list and of those after
\* it; the bind whose handler is called, "" when no pattern list matches
first_match(ev, i) ==
    IF i > Len(BindOrder) THEN ""
    ELSE IF \E kb \in Keybinds[BindOrder[i]] : matches(kb, ev) THEN BindOrder[i]
    ELSE first_match(ev, i + 1)

handle_key_event(ev) == first_match(ev, 1)

\* Keybinds::handle
handle(ev, s) ==
    LET b == handle_key_event(ev)
    IN  IF b # "" THEN call_bind(b, s) ELSE fallback_handler(s, ev)

----------------------------------------------------------------------------
(* util.rs *)

\* Option<(i64, Vec<usize>)>
None == [some |-> FALSE, score |-> 0, idx |-> <<>>]
Some(score, idx) == [some |-> TRUE, score |-> score, idx |-> idx]

RECURSIVE subseq_indices(_, _, _)
\* the positions (0-based, in characters) of the leftmost occurrence of the
\* characters of pattern q, in order and ignoring ASCII case, in name from its i-th
\* character on; <<-1>> when q does not occur
subseq_indices(name, i, q) ==
    IF q = <<>> THEN <<>>
    ELSE IF i > Len(name) THEN <<-1>>
    ELSE IF ascii_lower(name[i]) = ascii_lower(Head(q))
         THEN LET rest == subseq_indices(name, i + 1, Tail(q))
              IN  IF rest = <<-1>> THEN <<-1>> ELSE <<i - 1>> \o rest
         ELSE subseq_indices(name, i + 1, q)

\* fuzzy_matcher::clangd::fuzzy_indices(name, q), a crate outside the
\* repository: Some exactly when q is a subsequence of name, ignoring ASCII case.
\* The score rewards a match at the start of the name and adjacent
\* matched characters and penalises unmatched characters; the crate's exact
\* weights are not modelled.
fuzzy_indices(name, q) ==
    LET idx == subseq_indices(name, 1, q)
        bonus(k) == IF idx[k] = 0 \/ (k > 1 /\ idx[k] = idx[k - 1] + 1) THEN 3 ELSE 1
        sum[k \in 0..Len(idx)] == IF k = 0 THEN 0 ELSE bonus(k) + sum[k - 1]
    IN  IF idx = <<-1>> THEN None
        ELSE Some(sum[Len(idx)] - (Len(name) - Len(idx)), idx)

\* Ord for Option<(i64, Vec<usize>)>: None first, then by score, then by indices
option_less(a, b) ==
    IF ~a.some THEN b.some
    ELSE IF ~b.some THEN FALSE
    ELSE IF a.score # b.score THEN a.score < b.score
    ELSE seq_less(a.idx, b.idx)

\* the candidate (Option<(i64, Vec<usize>)>, String, String)
Candidate(m, name, value) == [m |-> m, name |-> name, value |-> value]

\* closures that order the match results ascending: None first
sorts_before_ascending(empty_input, a, b) ==
    IF empty_input THEN seq_less(to_lowercase(a.name), to_lowercase(b.name))
    ELSE IF ~a.m.some /\ ~b.m.some
         THEN seq_less(to_lowercase(a.name), to_lowercase(b.name))
         ELSE option_less(a.m, b.m)

\* closures that compare the names as they are written
sorts_before_case_sensitive(empty_input, a, b) ==
    IF empty_input THEN seq_less(a.name, b.name)
    ELSE IF ~a.m.some /\ ~b.m.some
         THEN seq_less(a.name, b.name)
         ELSE option_less(b.m, a.m)

\* closures that compare the scores of two matches and nothing else
sorts_before_score_only(empty_input, a, b) ==
    IF empty_input THEN seq_less(to_lowercase(a.name), to_lowercase(b.name))
    ELSE IF ~a.m.some /\ ~b.m.some
         THEN seq_less(to_lowercase(a.name), to_lowercase(b.name))
         ELSE IF a.m.some /\ b.m.some THEN b.m.score < a.m.score
         ELSE option_less(b.m, a.m)

\* the two closures match_entries hands to sort_by, as "a sorts before b"
sorts_before(empty_input, a, b) ==
    IF empty_input THEN seq_less(to_lowercase(a.name), to_lowercase(b.name))
    ELSE IF ~a.m.some /\ ~b.m.some
         THEN seq_less(to_lowercase(a.name), to_lowercase(b.name))
         ELSE option_less(b.m, a.m)

\* one step of a stable sort: x goes before the first element it sorts before
sorted_insert(empty_input, sorted, x) ==
    LET before == {i \in 1..Len(sorted) : sorts_before(empty_input, x, sorted[i])}
        k == IF before = {} THEN Len(sorted) + 1
             ELSE CHOOSE i \in before : \A j \in before : i <= j
    IN  SubSeq(sorted, 1, k - 1) \o <<x>> \o SubSeq(sorted, k, Len(sorted))

RECURSIVE sort_by(_, _, _)
\* slice::sort_by (stable), the first n elements of xs
sort_by(empty_input, xs, n) ==
    IF n = 0 THEN <<>>
    ELSE sorted_insert(empty_input, sort_by(empty_input, xs, n - 1), xs[n])

\* a match_entries that keeps only the entries the query matches
match_entries_filtered(input, entries) ==
    LET kept == SelectSeq(entries, LAMBDA e : fuzzy_indices(e[1], input).some)
        entries_sorted ==
            [i \in 1..Len(kept) |->
                Candidate(fuzzy_indices(kept[i][1], input), kept[i][1], kept[i][2])]
    IN  sort_by(input = <<>>, entries_sorted, Len(entries_sorted))

match_entries(input, entries) ==
    LET entries_sorted ==
            [i \in 1..Len(entries) |->
                Candidate(fuzzy_indices(entries[i][1], input), entries[i][1], entries[i][2])]
    IN  sort_by(input = <<>>, entries_sorted, Len(entries_sorted))

\* the rows count_selectable_entries subtracts from the terminal height
ReservedRows == 5

\* a count that takes every entry as selectable, whatever the query matches
count_selectable_entries_all(s, entries, h) ==
    min(Len(entries), max(h - ReservedRows, 0))

\* count_selectable_entries, h being the height terminal::size() reports
count_selectable_entries(s, entries, h) ==
    LET count == IF s.input = <<>> THEN Len(entries)
                 ELSE Cardinality({i \in 1..Len(entries) : entries[i].m.some})
    IN  min(count, max(h - ReservedRows, 0))

----------------------------------------------------------------------------
(* config.rs: the configuration modelled *)

\* Menu.entries of three pages, as (name, value) pairs:
\* page 0 holds "ab", "Ba", "b"; page 1 is empty; page 2 holds "E'a" and "A"
PageEntries ==
    << << <<<<97, 98>>, "v_ab">>, <<<<66, 97>>, "v_Ba">>, <<<<98>>, "v_b">> >>,
       << >>,
       << <<<<201, 97>>, "v_Ea">>, <<<<65>>, "v_A">> >> >>

\* config.menus[i].1.entries, i counted from 0
menu_entries(i) == PageEntries[(i % Len(PageEntries)) + 1]

\* the terminal heights of the model
Heights == {ReservedRows, ReservedRows + 1, MaxRows}

----------------------------------------------------------------------------
(* draw.rs: draw_entries *)

\* the screen row of the first candidate
ROW_ENTRIES == 4

\* what draw_entries has queued: the rows the cursor was on at each call of
\* draw_entry, in order, and the "+N more" line (more = 0 and more_row = 0 when
\* there is none). Rows are counted as the code moves the cursor:
\* MoveTo(0, ROW_ENTRIES), then one MoveToNextLine(1) at the end of each draw_entry.
Drawing(entry_rows, more, more_row) ==
    [rows |-> entry_rows, more |-> more, more_row |-> more_row]

NoDrawing == Drawing(<<>>, 0, 0)

RECURSIVE draw_entries_loop(_, _, _, _, _)
\* the for loop of draw_entries from index i on, the cursor being on `row`
draw_entries_loop(entries, h, i, row, entry_rows) ==
    IF i >= Len(entries) THEN Drawing(entry_rows, 0, 0)
    ELSE LET y == i + 2
         IN  IF y < h
             THEN draw_entries_loop(entries, h, i + 1, row + 1, Append(entry_rows, row))
             ELSE IF i = 0 THEN Drawing(entry_rows, 0, 0)
             ELSE Drawing(entry_rows, Len(entries) - i + 1, row + 2)

\* draw_entries, h being the height terminal::size() reports
draw_entries(entries, h) == draw_entries_loop(entries, h, 0, ROW_ENTRIES, <<>>)

\* the columns between the name and the value
SPACING == 2

\* the least number of remaining columns for which a truncated value is drawn
TruncateFrom == 4

\* the width of the overflow indicator "+"
overflow_indicator_width == 1

\* what draw_entry has queued for the value: kind "full", "truncated" (text
\* followed by the overflow indicator) or "omitted", the text printed and the
\* column MoveToColumn was given
ValueDrawn(kind, text, column) == [kind |-> kind, text |-> text, column |-> column]

NoValue == ValueDrawn("none", <<>>, 0)

\* str::get(..n): the characters of the first n bytes of s, n being a
\* character boundary of s
str_prefix(s, n) == SubSeq(s, 1, Cardinality({i \in 1..Len(s) : byte_index(s, i) < n}))

\* draw_entry, "Draw value on right side": name is entry.1, value entry.2
draw_entry(term_width, name, value) ==
    LET name_width == str_len(name) + SPACING
        value_width == str_len(value)
        remaining_cols == max(term_width - name_width, 0)
    IN  IF remaining_cols >= value_width
        THEN ValueDrawn("full", value, term_width - value_width)
        ELSE IF remaining_cols >= TruncateFrom
        THEN LET n == remaining_cols - overflow_indicator_width
             IN  IF is_char_boundary(value, n)
                 THEN ValueDrawn("truncated", str_prefix(value, n),
                                 term_width - (n + overflow_indicator_width))
                 ELSE ValueDrawn("omitted", <<>>, 0)
        ELSE ValueDrawn("omitted", <<>>, 0)

----------------------------------------------------------------------------
(* main.rs: interact *)

\* no call taken alone: the loop runs
NoCall ==
    [op |-> "none", input |-> <<>>, entries |-> <<>>, cands |-> <<>>, h |-> 0,
     w |-> 0, entry |-> <<>>, done |-> FALSE]
NoRet == [ranked |-> <<>>, drawing |-> NoDrawing, value |-> NoValue]

\* what one pass through "Update + draw" (taken when the state changed, on
\* the first iteration or on a forced redraw) leaves behind
Outcome(st, s, res, err, dr, er) ==
    [status |-> st, state |-> s, result |-> res, error |-> err,
     drawn |-> dr, erased |-> er]

\* the Action::Submit arm: the value returned, or the error
submit_selection(s, entries) ==
    IF s.entry_index < Len(entries)
    THEN Outcome("returned", s, entries[s.entry_index + 1].value, "", FALSE, FALSE)
    ELSE Outcome("error", s, "", "selection index out of bounds", FALSE, FALSE)

\* a Submit arm that does not look at the selectable count
submit_allowed_always(s) == TRUE

\* the guard of the Action::Submit arm
submit_allowed(s) == s.entry_count > 0

\* the pending action reset to none
action_after_draw_none == "None"

\* the value state.action is left with when the cycle has drawn
action_after_draw == "Clear"

\* an update block that takes the result cursor off when the selected index
\* is no longer below the recomputed count
update_draw_clamped(s0, h, n) ==
    IF s0.menu_index >= n
    THEN Outcome("error", s0, "", "invalid menu index", FALSE, FALSE)
    ELSE LET entries == match_entries(s0.input, menu_entries(s0.menu_index))
             count == count_selectable_entries(s0, entries, h)
             s == [s0 EXCEPT !.entry_count = count,
                             !.entry_cursor = s0.entry_cursor /\ s0.entry_index < count,
                             !.entry_index = IF s0.entry_index < count
                                             THEN s0.entry_index ELSE 0]
             go_on == Outcome("running", [s EXCEPT !.action = action_after_draw],
                              "", "", TRUE, s.action = "Clear")
         IN  CASE s.action = "Exit" -> Outcome("returned", s, "", "", FALSE, FALSE)
               [] s.action = "Submit" ->
                    IF submit_allowed(s) THEN submit_selection(s, entries) ELSE go_on
               [] OTHER -> go_on

\* the block under `if state != last_state || first || force_redraw`,
\* n being config.menus.len() and h the terminal height
update_draw(s0, h, n) ==
    IF s0.menu_index >= n
    THEN Outcome("error", s0, "", "invalid menu index", FALSE, FALSE)
    ELSE LET entries == match_entries(s0.input, menu_entries(s0.menu_index))
             s == [s0 EXCEPT !.entry_count = count_selectable_entries(s0, entries, h)]
             go_on == Outcome("running", [s EXCEPT !.action = action_after_draw],
                              "", "", TRUE, s.action = "Clear")
         IN  CASE s.action = "Exit" -> Outcome("returned", s, "", "", FALSE, FALSE)
               [] s.action = "Submit" ->
                    IF submit_allowed(s) THEN submit_selection(s, entries) ELSE go_on
               [] OTHER -> go_on

\* a redraw condition that forgets the forced redraw
needs_update_no_force(s, last, is_first, force_redraw) == s # last \/ is_first

\* the redraw condition
needs_update(s, last, is_first, force_redraw) == s # last \/ is_first \/ force_redraw

\* the rest of one iteration once the event is handled: s is the state the
\* event left, h the terminal height
Cycle(s, h, force_redraw) ==
    /\ last_state' = state
    /\ IF needs_update(s, state, first, force_redraw)
       THEN \E o \in {update_draw(s, h, menu_total)} :
                /\ state' = o.state
                /\ status' = o.status
                /\ result' = o.result
                /\ error' = o.error
                /\ drawn' = o.drawn
                /\ erased' = o.erased
                /\ first' = IF o.status = "running" THEN FALSE ELSE first
       ELSE /\ state' = s
            /\ drawn' = FALSE
            /\ erased' = FALSE
            /\ UNCHANGED <<status, result, error, first>>

\* a focus-lost arm that breaks whatever the option is
focus_lost_exits_always(t) == TRUE

\* `if args.transient { break; }` of the Event::FocusLost arm
focus_lost_exits(t) == t

NoKey == KeyEvent(Key("None"), NoMod)
Ev(type, key, bind) == [type |-> type, key |-> key, bind |-> bind]

\* the fallback insertion is taken only below the bound on the input
WithinBound(ev) ==
    (handle_key_event(ev) = "" /\ ev.code.kind = "Char" /\ bits(ev.mods) <= 1)
        => Len(state.input) < MaxInput

\* the first iteration: no event is read
FirstIteration ==
    /\ status = "running" /\ first
    /\ event' = Ev("First", NoKey, "")
    /\ Cycle(state, rows, FALSE)
    /\ UNCHANGED <<rows, transient, menu_total, call, ret>>

\* poll() times out: continue
Timeout ==
    /\ status = "running" /\ ~first
    /\ event' = Ev("Timeout", NoKey, "")
    /\ last_state' = state
    /\ drawn' = FALSE
    /\ erased' = FALSE
    /\ UNCHANGED <<state, first, rows, transient, menu_total, status, result, error>>
    /\ UNCHANGED <<call, ret>>

\* Event::Resize: the terminal has a new height
Resize ==
    /\ status = "running" /\ ~first
    /\ \E h \in Heights :
        /\ rows' = h
        /\ event' = Ev("Resize", NoKey, "")
        /\ Cycle(state, h, TRUE)
    /\ UNCHANGED <<transient, menu_total, call, ret>>

\* Event::FocusLost
FocusLost ==
    /\ status = "running" /\ ~first
    /\ event' = Ev("FocusLost", NoKey, "")
    /\ IF focus_lost_exits(transient)
       THEN /\ status' = "returned"
            /\ result' = ""
            /\ last_state' = state
            /\ drawn' = FALSE
            /\ erased' = FALSE
            /\ UNCHANGED <<state, error, first>>
       ELSE Cycle(state, rows, FALSE)
    /\ UNCHANGED <<rows, transient, menu_total, call, ret>>

\* any other event (focus gained, mouse, paste): `_ => {}`
OtherEvent ==
    /\ status = "running" /\ ~first
    /\ event' = Ev("FocusGained", NoKey, "")
    /\ Cycle(state, rows, FALSE)
    /\ UNCHANGED <<rows, transient, menu_total, call, ret>>

\* Event::Key
KeyPress ==
    /\ status = "running" /\ ~first
    /\ \E ev \in KeyEvents :
        /\ WithinBound(ev)
        /\ event' = Ev("Key", ev, handle_key_event(ev))
        /\ \E r \in {handle(ev, state)} :
               IF r.tag = "Ok" THEN Cycle(r.state, rows, FALSE)
               ELSE /\ status' = IF r.tag = "Panic" THEN "panic" ELSE "error"
                    /\ error' = r.msg
                    /\ last_state' = state
                    /\ drawn' = FALSE
                    /\ erased' = FALSE
                    /\ UNCHANGED <<state, result, first>>
    /\ UNCHANGED <<rows, transient, menu_total, call, ret>>

\* interact is entered with the State default and the page count, for each
\* configuration and terminal of the model
Init ==
    /\ menu_total \in {0, MaxMenus}
    /\ transient \in BOOLEAN
    /\ rows = MaxRows
    /\ state = DefaultState(menu_total)
    /\ last_state = state
    /\ first = TRUE
    /\ event = Ev("None", NoKey, "")
    /\ status = "running"
    /\ result = ""
    /\ error = ""
    /\ drawn = FALSE
    /\ erased = FALSE
    /\ call = NoCall
    /\ ret = NoRet

Next ==
    \/ FirstIteration
    \/ Timeout
    \/ Resize
    \/ FocusLost
    \/ OtherEvent
    \/ KeyPress

Spec == Init /\ [][Next]_vars

----------------------------------------------------------------------------
(* match_entries and draw_entries taken alone, over every argument below the bounds *)

\* the queries: the strings over 'a' and 'b' of at most MaxInput characters
Queries == UNION {[1..n -> {97, 98}] : n \in 0..MaxInput}

\* the entries a page is made of, as (name, value) pairs: "ab", "Ba", "b",
\* "AB" (equal to "ab" when lower-cased) and "E'a"
EntryPool ==
    {<<<<97, 98>>, "v_ab">>, <<<<66, 97>>, "v_Ba">>, <<<<98>>, "v_b">>,
     <<<<65, 66>>, "v_AB">>, <<<<201, 97>>, "v_Ea">>}

\* the entry lists: at most MaxEntries entries of the pool, repeats included
EntryLists == UNION {[1..n -> EntryPool] : n \in 0..MaxEntries}

\* a page of n entries for the renderer, named "a", "b", "a", ...
LongPage(n) == [i \in 1..n |-> <<<<97 + ((i - 1) % 2)>>, "v">>]

\* the match results fuzzy_indices may hand to the sort: no match, and
\* matches of score 2 or 3 at the positions <<0>>, <<1>> or <<0, 1>>
MatchResults == {None, Some(2, <<0>>), Some(2, <<1>>), Some(2, <<0, 1>>), Some(3, <<0>>)}

\* the candidates the map of match_entries may collect: "ab" and "Ba", each
\* with every match result
CandidatePool ==
    {Candidate(m, name, "v") : m \in MatchResults, name \in {<<97, 98>>, <<66, 97>>}}

\* the candidate vectors: at most MaxEntries candidates, repeats included
CandidateLists == UNION {[1..n -> CandidatePool] : n \in 0..MaxEntries}

\* the names draw_entry is run on: "", "a", "aa", ... of at most MaxNameLen characters
Names == {[i \in 1..n |-> 97] : n \in 0..MaxNameLen}

\* the values draw_entry is run on: "", "v", "vv", ... of at most MaxValueLen
\* characters, and "vvE'v", whose third character takes two bytes
Values == {[i \in 1..n |-> 118] : n \in 0..MaxValueLen} \cup {<<118, 118, 201, 118>>}

\* the calls of the model
Calls ==
    {[op |-> "match_entries", input |-> q, entries |-> E, cands |-> <<>>, h |-> 0,
      w |-> 0, entry |-> <<>>, done |-> FALSE] :
        q \in Queries, E \in EntryLists}
    \cup
    {[op |-> "draw_entries", input |-> <<>>, entries |-> LongPage(n), cands |-> <<>>,
      h |-> h, w |-> 0, entry |-> <<>>, done |-> FALSE] :
        n \in 0..MaxCandidates, h \in 0..MaxHeight}
    \cup
    {[op |-> "sort_by", input |-> <<97>>, entries |-> <<>>, cands |-> cs, h |-> 0,
      w |-> 0, entry |-> <<>>, done |-> FALSE] :
        cs \in CandidateLists}
    \cup
    {[op |-> "draw_entry", input |-> <<>>, entries |-> <<>>, cands |-> <<>>, h |-> 0,
      w |-> w, entry |-> <<name, value>>, done |-> FALSE] :
        w \in 0..MaxWidth, name \in Names, value \in Values}

\* match_entries(&call.input, &call.entries)
CallMatchEntries ==
    /\ call.op = "match_entries" /\ ~call.done
    /\ call' = [call EXCEPT !.done = TRUE]
    /\ ret' = [ranked |-> match_entries(call.input, call.entries), drawing |-> NoDrawing, value |-> NoValue]
    /\ UNCHANGED <<state, last_state, first, rows, transient, menu_total, event,
                   status, result, error, drawn, erased>>

\* the entries interact ranks and hands to draw, on a terminal of call.h rows
CallDrawEntries ==
    /\ call.op = "draw_entries" /\ ~call.done
    /\ call' = [call EXCEPT !.done = TRUE]
    /\ \E entries \in {match_entries(call.input, call.entries)} :
           ret' = [ranked |-> entries, drawing |-> draw_entries(entries, call.h),
                   value |-> NoValue]
    /\ UNCHANGED <<state, last_state, first, rows, transient, menu_total, event,
                   status, result, error, drawn, erased>>

\* entries_sorted.sort_by(..) of match_entries on a candidate vector, the
\* input being non-empty
CallSortBy ==
    /\ call.op = "sort_by" /\ ~call.done
    /\ call' = [call EXCEPT !.done = TRUE]
    /\ ret' = [ranked |-> sort_by(call.input = <<>>, call.cands, Len(call.cands)),
               drawing |-> NoDrawing, value |-> NoValue]
    /\ UNCHANGED <<state, last_state, first, rows, transient, menu_total, event,
                   status, result, error, drawn, erased>>

\* draw_entry on a terminal of call.w columns: the value on the right side
CallDrawEntry ==
    /\ call.op = "draw_entry" /\ ~call.done
    /\ call' = [call EXCEPT !.done = TRUE]
    /\ ret' = [ranked |-> <<>>, drawing |-> NoDrawing,
               value |-> draw_entry(call.w, call.entry[1], call.entry[2])]
    /\ UNCHANGED <<state, last_state, first, rows, transient, menu_total, event,
                   status, result, error, drawn, erased>>

PureInit ==
    /\ menu_total = MaxMenus
    /\ transient = FALSE
    /\ rows = MaxRows
    /\ state = DefaultState(menu_total)
    /\ last_state = state
    /\ first = TRUE
    /\ event = Ev("None", NoKey, "")
    /\ status = "running"
    /\ result = ""
    /\ error = ""
    /\ drawn = FALSE
    /\ erased = FALSE
    /\ call \in Calls
    /\ ret = NoRet

PureNext ==
    \/ CallMatchEntries
    \/ CallDrawEntries
    \/ CallSortBy
    \/ CallDrawEntry

PureSpec == PureInit /\ [][PureNext]_vars

----------------------------------------------------------------------------
(* Properties *)

\* the loop waits for the next event
Waiting == status = "running" /\ ~first

\* the last cycle handled a key event that dispatched to bind b
Dispatched(b) == event.type = "Key" /\ event.bind = b

\* the ranked candidates of the state's page and query
Ranked(s) == match_entries(s.input, menu_entries(s.menu_index))

\* the text, cursor, result cursor and page of two states agree
SameSelection(s, t) ==
    /\ s.input = t.input
    /\ s.cursor_x = t.cursor_x
    /\ s.entry_cursor = t.entry_cursor
    /\ s.entry_index = t.entry_index
    /\ s.menu_index = t.menu_index

\* C1: whenever the loop waits for the next event and the result cursor is
\* active, the selected index is below the selectable count.
C1_SelectedBelowCount ==
    (Waiting /\ state.entry_cursor) => state.entry_index < state.entry_count

\* C2: a submit returns the value of the ranked candidate at the selected
\* index when the selectable count is non-zero and the index is below it, and
\* is a no-op (no value, no error, loop running) in every other case.
C2_SubmitInRangeOrNoOp ==
    Dispatched("submit") =>
        IF state.entry_count > 0 /\ state.entry_index < state.entry_count
        THEN /\ status = "returned"
             /\ result = Ranked(state)[state.entry_index + 1].value
        ELSE /\ status = "running"
             /\ result = ""
             /\ error = ""

\* C3: the cursor offset stays within [0, len(query)], in bytes, after every
\* key event, and every handler keeps it there.
C3_CursorWithinQuery ==
    /\ state.cursor_x >= 0
    /\ state.cursor_x <= str_len(state.input)
    /\ \A ev \in KeyEvents :
          LET r == handle(ev, state)
          IN  r.tag = "Ok" =>
                 r.state.cursor_x >= 0 /\ r.state.cursor_x <= str_len(r.state.input)

\* a query holding a two-byte character with the cursor moved to its end
C3_Witness ==
    /\ Dispatched("input_next")
    /\ Len(state.input) = 2
    /\ str_len(state.input) = 3
    /\ state.cursor_x = 3
    /\ last_state.cursor_x = 2

\* C4: the cursor offset always lies on a character boundary of the query
\* and no edit fails because of a multi-byte character.
C4_BoundarySafe ==
    /\ is_char_boundary(state.input, state.cursor_x)
    /\ status # "panic"

\* C5: menu-back moves from page i to page (i - 1) mod n and resets query,
\* cursor, result cursor and selected index.
C5_MenuBackWraps ==
    (Dispatched("menu_back") /\ status = "running") =>
        /\ state.menu_index =
              (last_state.menu_index + state.menu_count - 1) % state.menu_count
        /\ state.input = <<>>
        /\ state.cursor_x = 0
        /\ ~state.entry_cursor
        /\ state.entry_index = 0

\* C6: menu-next moves from page i to page (i + 1) mod n and resets query,
\* cursor, result cursor and selected index.
C6_MenuNextWraps ==
    (Dispatched("menu_next") /\ status = "running") =>
        /\ state.menu_index = (last_state.menu_index + 1) % state.menu_count
        /\ state.input = <<>>
        /\ state.cursor_x = 0
        /\ ~state.entry_cursor
        /\ state.entry_index = 0

\* menu-next on the last page, with a query typed and a result selected
C6_Witness ==
    /\ Dispatched("menu_next")
    /\ status = "running"
    /\ last_state.menu_index = menu_total - 1
    /\ menu_total > 1
    /\ last_state.input # <<>>
    /\ last_state.entry_cursor
    /\ last_state.entry_index > 0
    /\ state.menu_index = 0

\* C7: with at least one page the active page index is below the page count.
C7_PageIndexBelowCount ==
    menu_total > 0 =>
        /\ state.menu_count = menu_total
        /\ state.menu_index < state.menu_count

\* the last page reached by menu-next
C7_Witness ==
    /\ Dispatched("menu_next")
    /\ menu_total > 1
    /\ state.menu_index = menu_total - 1

\* the states C8 speaks of: N > 0 selectable results, result cursor inactive
C8_Pre == Waiting /\ state.entry_count > 0 /\ ~state.entry_cursor

NextThenBack(s) == entry_back(entry_next(s).state).state
BackThenNext(s) == entry_next(entry_back(s).state).state

\* C8 as claimed: from an inactive cursor with N > 0, entry-next then
\* entry-back, and entry-back then entry-next, return the selected index to
\* the index held before (modulo N), only the activation flag differing.
C8_RoundTripReturns ==
    C8_Pre =>
        /\ NextThenBack(state).entry_index % state.entry_count
              = state.entry_index % state.entry_count
        /\ BackThenNext(state).entry_index % state.entry_count
              = state.entry_index % state.entry_count

\* C8 as amended: from an inactive cursor with N > 0, entry-next then
\* entry-back leaves the selected index at N - 1 and entry-back then
\* entry-next leaves it at 0, the cursor active and every other field as
\* before.
C8_RoundTripAmended ==
    C8_Pre =>
        /\ NextThenBack(state)
              = [state EXCEPT !.entry_cursor = TRUE, !.entry_index = state.entry_count - 1]
        /\ BackThenNext(state)
              = [state EXCEPT !.entry_cursor = TRUE, !.entry_index = 0]

\* entry-back on an active cursor at index 0 (where entry-next puts an
\* inactive one) with several results: the index is now N - 1
C8_Witness ==
    /\ Dispatched("entry_back")
    /\ Waiting
    /\ state.entry_count >= 2
    /\ last_state.entry_cursor
    /\ last_state.entry_index = 0
    /\ state.entry_index = state.entry_count - 1

\* C9: with zero selectable results entry-next, entry-back and submit leave
\* query, cursor, result cursor, selected index and page as they were, end
\* nothing and raise nothing.
C9_ZeroCountNoOps ==
    ((Dispatched("entry_next") \/ Dispatched("entry_back") \/ Dispatched("submit"))
        /\ last_state.entry_count = 0) =>
        /\ status = "running"
        /\ result = ""
        /\ error = ""
        /\ SameSelection(state, last_state)
        /\ state.entry_count = 0

\* a submit on a page that has entries, none of them selectable
C9_Witness ==
    /\ Dispatched("submit")
    /\ last_state.entry_count = 0
    /\ Len(menu_entries(state.menu_index)) > 0
    /\ status = "running"

\* C10 as claimed: whenever the loop waits after a completed cycle the
\* pending action is none, and the screen is erased only in a cycle whose
\* transition was the clear action.
C10_ActionResetToNone ==
    /\ Waiting => state.action = "None"
    /\ erased => Dispatched("clear")

\* C10 as amended: whenever the loop waits after a completed cycle the
\* pending action is clear, and the screen is erased in every cycle that
\* draws, except the first iteration and a submit that is a no-op.
C10_ActionResetToClear ==
    /\ Waiting => state.action = "Clear"
    /\ erased <=> (drawn /\ event.type # "First" /\ ~Dispatched("submit"))

\* a resize erases the screen
C10_Witness ==
    /\ Waiting
    /\ event.type = "Resize"
    /\ erased
    /\ state.action = "Clear"

\* the state the last cycle's event left differs from the state at the head
\* of the cycle (only a key event changes the state)
EventChangedState ==
    /\ event.type = "Key"
    /\ handle(event.key, last_state).tag = "Ok"
    /\ handle(event.key, last_state).state # last_state

\* the three reasons for a redraw
RedrawDue == event.type = "First" \/ event.type = "Resize" \/ EventChangedState

\* C11 as claimed: in every loop cycle the renderer is invoked and the output
\* flushed if and only if it is the first iteration, a resize forced a
\* redraw, or the event changed the state; a timeout changes no state and
\* draws nothing.
C11_DrawnIffDue ==
    event.type # "None" =>
        /\ drawn <=> RedrawDue
        /\ event.type = "Timeout" => (state = last_state /\ ~drawn)

\* C11 as amended: the same, in every loop cycle that does not end the loop;
\* a cycle that ends the loop (exit, a submit that returns, focus loss with
\* the option set, an error) draws nothing.
C11_DrawnIffDueUnlessEnded ==
    event.type # "None" =>
        /\ status = "running" => (drawn <=> RedrawDue)
        /\ status # "running" => ~drawn
        /\ event.type = "Timeout" => (state = last_state /\ ~drawn /\ status = "running")
        /\ (event.type = "First" /\ status = "running") =>
              (drawn /\ SameSelection(state, DefaultState(menu_total)))

\* a resize that changes nothing in the state and is drawn all the same
C11_Witness ==
    /\ Waiting
    /\ event.type = "Resize"
    /\ state = last_state
    /\ drawn

\* C12: when a key event bound to exit is processed the loop terminates in
\* that same cycle with an empty result and without rendering, whatever the
\* query, result cursor and selectable count were; once the loop has
\* terminated no further event is applied.
C12_ExitEndsLoop ==
    /\ Dispatched("exit") =>
          /\ status = "returned"
          /\ result = ""
          /\ error = ""
          /\ ~drawn
          /\ state = [last_state EXCEPT !.action = "Exit"]
    /\ status # "running" => ~ENABLED Next

\* an exit key ended the loop while a query was typed, the result cursor was
\* active and candidates were selectable
C12_Witness ==
    /\ Dispatched("exit")
    /\ status = "returned"
    /\ last_state.input # <<>>
    /\ last_state.entry_cursor
    /\ last_state.entry_count > 0

\* C13: a focus-lost notification terminates the loop at once with an empty
\* result if and only if the transient option is set; when it is not set the
\* notification is ignored: the state is unchanged, nothing is redrawn and
\* the loop continues.
C13_FocusLostExitsIffTransient ==
    event.type = "FocusLost" =>
        /\ (status = "returned") <=> transient
        /\ status # "running" => (status = "returned" /\ result = "" /\ error = "")
        /\ ~transient => status = "running"
        /\ state = last_state
        /\ ~drawn
        /\ ~erased

\* a focus-lost notification was ignored while a query was typed and the
\* result cursor was active
C13_Witness ==
    /\ event.type = "FocusLost"
    /\ ~transient
    /\ status = "running"
    /\ state.input # <<>>
    /\ state.entry_cursor

\* the priority order of the actions
PriorityOrder ==
    <<"exit", "submit", "clear", "delete_next", "delete_back", "input_next",
      "input_back", "entry_next", "entry_back", "menu_next", "menu_back">>

\* the positions in the priority order of the actions a pattern of which matches ev
MatchingActions(ev) ==
    {i \in 1..Len(PriorityOrder) : \E kb \in Keybinds[PriorityOrder[i]] : matches(kb, ev)}

\* the first action in the priority order a pattern of which matches ev
FirstMatching(ev) ==
    PriorityOrder[CHOOSE i \in MatchingActions(ev) : \A j \in MatchingActions(ev) : i <= j]

\* C14: key dispatch follows the priority order exit, submit, clear,
\* delete_next, delete_back, input_next, input_back, entry_next, entry_back,
\* menu_next, menu_back: when an event matches patterns of one or several
\* actions, the first matching action in this order is the one applied, once,
\* and the state the cycle leaves is the one that single handler produced,
\* not that of a later action or of the fallback insertion.
C14_FirstMatchingActionApplied ==
    (event.type = "Key" /\ MatchingActions(event.key) # {}) =>
        /\ event.bind = FirstMatching(event.key)
        /\ \E r \in {call_bind(FirstMatching(event.key), last_state)} :
              IF r.tag = "Ok"
              THEN /\ SameSelection(state, r.state)
                   /\ status \in {"running", "returned", "error"}
              ELSE /\ status = "error"
                   /\ error = r.msg
                   /\ state = last_state

\* Tab matches entry_next and menu_next: entry_next was applied, the result
\* cursor went to the first candidate and page and query stayed, where
\* menu_next would have changed the page and emptied the query
C14_Witness ==
    /\ Dispatched("entry_next")
    /\ Cardinality(MatchingActions(event.key)) = 2
    /\ last_state.input # <<>>
    /\ ~last_state.entry_cursor
    /\ state.entry_cursor
    /\ state.input = last_state.input
    /\ ~SameSelection(state, menu_next(last_state).state)

\* the last cycle handled a key event no action matched
Unmatched == event.type = "Key" /\ event.bind = ""

\* the unmatched key is a character with no modifier or with shift only
PlainChar(ev) == ev.code.kind = "Char" /\ ev.mods \in {NoMod, Shift}

\* C15: when no action matches a key event, the state changes only if the
\* event is a character key with no modifier or the shift modifier only, and
\* then the character is inserted into the query at the cursor offset and the
\* cursor advances by one; every other unmatched event leaves the state
\* unchanged and raises no error.
C15_FallbackInsertsOrNoOp ==
    Unmatched =>
        IF PlainChar(event.key)
        THEN /\ status = "running"
             /\ state.input = str_insert(last_state.input, last_state.cursor_x, event.key.code.ch)
             /\ state.cursor_x = last_state.cursor_x + 1
        ELSE /\ status = "running"
             /\ error = ""
             /\ state = last_state

\* a call of match_entries has returned
Matched == call.op = "match_entries" /\ call.done

\* the (name, value) pairs of a ranked list, in its order
Pairs(ranked) == [i \in 1..Len(ranked) |-> <<ranked[i].name, ranked[i].value>>]

\* how many times x occurs in the sequence xs
Count(xs, x) == Cardinality({i \in 1..Len(xs) : xs[i] = x})

\* C16: for every query and every entry list, the result of match_entries is
\* a permutation of the list: each (name, value) occurs in the result as many
\* times as in the list, none dropped and none duplicated, matched or not.
C16_RankIsPermutation ==
    Matched =>
        /\ Len(ret.ranked) = Len(call.entries)
        /\ \A e \in EntryPool : Count(Pairs(ret.ranked), e) = Count(call.entries, e)
        /\ \A i \in 1..Len(ret.ranked) :
              ret.ranked[i].m = fuzzy_indices(ret.ranked[i].name, call.input)

\* a non-empty query, a list with an entry twice and an entry the query does
\* not match, and a result in another order than the list
C16_Witness ==
    /\ Matched
    /\ call.input # <<>>
    /\ \E e \in EntryPool : Count(call.entries, e) = 2
    /\ \E i \in 1..Len(ret.ranked) : ~ret.ranked[i].m.some
    /\ \E i \in 1..Len(ret.ranked) : ret.ranked[i].m.some
    /\ Pairs(ret.ranked) # call.entries

\* C17: for every non-empty query and every entry list, every candidate of
\* the result with a successful match stands before every candidate without.
C17_MatchedBeforeUnmatched ==
    (Matched /\ call.input # <<>>) =>
        \A i, j \in 1..Len(ret.ranked) :
            (ret.ranked[i].m.some /\ ~ret.ranked[j].m.some) => i < j

\* the list begins with an entry the query does not match and holds matched
\* entries after it; the result begins with a matched one
C17_Witness ==
    /\ Matched
    /\ call.input # <<>>
    /\ Len(call.entries) = MaxEntries
    /\ ~fuzzy_indices(call.entries[1][1], call.input).some
    /\ fuzzy_indices(call.entries[2][1], call.input).some
    /\ ret.ranked[1].m.some
    /\ ~ret.ranked[MaxEntries].m.some

\* C18: for the empty query the result is in the alphabetical order of the
\* lower-cased names, whatever the match results: of two adjacent candidates
\* the lower-cased name of the first is not after that of the second.
C18_EmptyQueryAlphabetical ==
    (Matched /\ call.input = <<>>) =>
        \A i \in 1..(Len(ret.ranked) - 1) :
            ~seq_less(to_lowercase(ret.ranked[i + 1].name), to_lowercase(ret.ranked[i].name))

\* the list holds "Ba" before "ab": the result holds "ab" before "Ba", the
\* reverse of the order of the names as written
C18_Witness ==
    /\ Matched
    /\ call.input = <<>>
    /\ Len(call.entries) >= 2
    /\ call.entries[1][1] = <<66, 97>>
    /\ call.entries[2][1] = <<97, 98>>
    /\ ret.ranked[1].name = <<97, 98>>
    /\ seq_less(ret.ranked[2].name, ret.ranked[1].name)

\* a call of draw_entries has returned
Rendered == call.op = "draw_entries" /\ call.done

\* C19: the renderer stops drawing candidates once the rows of the terminal
\* are used up: the candidates starting at row 4 and the terminal having h
\* rows, no candidate is drawn on a row >= h; with h = 10 and more candidates
\* than fit, at most 4 candidate rows are drawn before the one overflow line.
C19_StopsAtRowBudget ==
    Rendered =>
        /\ \A k \in 1..Len(ret.drawing.rows) : ret.drawing.rows[k] < call.h
        /\ (call.h = 10 /\ Len(ret.ranked) > Len(ret.drawing.rows)) =>
              /\ Len(ret.drawing.rows) <= 4
              /\ ret.drawing.more > 0

\* C20: delete_back applied to a state whose cursor offset is 0 returns the
\* state unchanged: query, cursor offset, result cursor, selected index,
\* pending action and page index are all as before, and the loop goes on
\* without a redraw.
C20_DeleteBackAtZeroNoOp ==
    (Dispatched("delete_back") /\ last_state.cursor_x = 0) =>
        /\ state = last_state
        /\ delete_back(last_state) = Ok(last_state)
        /\ status = "running"
        /\ ~drawn

\* delete_back was applied at cursor 0 to a typed query with the result
\* cursor active
C20_Witness ==
    /\ Dispatched("delete_back")
    /\ last_state.cursor_x = 0
    /\ last_state.input # <<>>
    /\ last_state.entry_cursor
    /\ status = "running"

\* C21: with N > 0 selectable results, entry_next activates the result cursor
\* and sets the index to 0 if the cursor was inactive, otherwise to
\* (index + 1) mod N; entry_back activates the result cursor and sets the
\* index to N - 1 if the cursor was inactive, otherwise to (index - 1) mod N
\* (N - 1 from index 0); in both cases the resulting index is below N.
C21_EntryStepWrapsBelowCount ==
    LET N == last_state.entry_count
        i == last_state.entry_index
    IN  /\ (Dispatched("entry_next") /\ N > 0) =>
              /\ state.entry_cursor
              /\ state.entry_index = IF last_state.entry_cursor THEN (i + 1) % N ELSE 0
              /\ state.entry_index < N
        /\ (Dispatched("entry_back") /\ N > 0) =>
              /\ state.entry_cursor
              /\ state.entry_index =
                    IF ~last_state.entry_cursor THEN N - 1
                    ELSE IF i = 0 THEN N - 1 ELSE (i - 1) % N
              /\ state.entry_index < N

\* entry_next was applied with the cursor on the last of three selectable
\* results and took it back to the first
C21_Witness ==
    /\ Dispatched("entry_next")
    /\ last_state.entry_cursor
    /\ last_state.entry_count = 3
    /\ last_state.entry_index = 2
    /\ state.entry_index = 0

\* the last cycle went through the update block and recomputed the candidates
Recomputed == drawn \/ (event.type = "Key" /\ status = "returned")

\* the entries of the state's page the state's query matches
MatchedEntries(s) ==
    {i \in 1..Len(menu_entries(s.menu_index)) :
        fuzzy_indices(menu_entries(s.menu_index)[i][1], s.input).some}

\* the number k of the count policy
PolicyCount(s) ==
    IF s.input = <<>> THEN Len(menu_entries(s.menu_index))
    ELSE Cardinality(MatchedEntries(s))

\* C22: after every cycle that recomputes the candidates, the selectable
\* count equals min(k, max(0, rows - R)), k being the number of entries of
\* the active page if the query is empty and the number of matched entries
\* otherwise, rows the terminal height and R the reserved rows; so with an
\* empty query and enough rows every entry is selectable.
C22_SelectableCountPolicy ==
    (Recomputed \/ Waiting) =>
        /\ state.entry_count = min(PolicyCount(state), max(0, rows - ReservedRows))
        /\ (state.input = <<>> /\ rows - ReservedRows >= Len(menu_entries(state.menu_index)))
              => state.entry_count = Len(menu_entries(state.menu_index))

\* a query that matches two of the three entries of the page was drawn on a
\* terminal with room for all three: two are selectable
C22_Witness ==
    /\ drawn
    /\ state.input # <<>>
    /\ Len(menu_entries(state.menu_index)) = 3
    /\ rows - ReservedRows >= 3
    /\ state.entry_count = 2

\* candidates have been ranked for a non-empty query
RankedForQuery ==
    /\ call.done
    /\ call.op \in {"match_entries", "sort_by"}
    /\ call.input # <<>>

\* the order of the scores and of the unmatched names in a ranked list r
ScoreAndNameOrder(r) ==
    \A i, j \in 1..Len(r) :
        i < j =>
            /\ (r[i].m.some /\ r[j].m.some) => r[i].m.score >= r[j].m.score
            /\ (~r[i].m.some /\ ~r[j].m.some) =>
                  ~seq_less(to_lowercase(r[j].name), to_lowercase(r[i].name))

\* C23 as claimed: for a non-empty query, of two matched candidates the one
\* with the higher score is ranked first, of two matched candidates of equal
\* score the one whose matched positions are earlier (smaller) is ranked
\* first, and two unmatched candidates are in the alphabetical order of their
\* lower-cased names.
C23_TieEarlierPositionsFirst ==
    RankedForQuery =>
        /\ ScoreAndNameOrder(ret.ranked)
        /\ \A i, j \in 1..Len(ret.ranked) :
              (i < j /\ ret.ranked[i].m.some /\ ret.ranked[j].m.some
                     /\ ret.ranked[i].m.score = ret.ranked[j].m.score)
                  => ~seq_less(ret.ranked[j].m.idx, ret.ranked[i].m.idx)

\* C23 as amended: for a non-empty query, of two matched candidates the one
\* with the higher score is ranked first, of two matched candidates of equal
\* score the one whose matched positions are later (greater, as Vec<usize>
\* orders them) is ranked first, and two unmatched candidates are in the
\* alphabetical order of their lower-cased names.
C23_TieLaterPositionsFirst ==
    RankedForQuery =>
        /\ ScoreAndNameOrder(ret.ranked)
        /\ \A i, j \in 1..Len(ret.ranked) :
              (i < j /\ ret.ranked[i].m.some /\ ret.ranked[j].m.some
                     /\ ret.ranked[i].m.score = ret.ranked[j].m.score)
                  => ~seq_less(ret.ranked[i].m.idx, ret.ranked[j].m.idx)

\* two matches of equal score, the one at position 0 handed in before the one
\* at position 1: the ranked list holds the one at position 1 first
C23_Witness ==
    /\ RankedForQuery
    /\ call.op = "sort_by"
    /\ Len(call.cands) = 2
    /\ call.cands[1].m = Some(2, <<0>>)
    /\ call.cands[2].m = Some(2, <<1>>)
    /\ ret.ranked[1].m = Some(2, <<1>>)
    /\ ret.ranked[2].m = Some(2, <<0>>)

\* the fields of the State record
Fields ==
    {"input", "action", "cursor_x", "entry_cursor", "entry_count", "entry_index",
     "menu_count", "menu_index"}

\* the fields the semantics of action b list as changed
MayChange(b) ==
    CASE b \in {"exit", "submit"} -> {"action"}
      [] b \in {"input_next", "input_back"} -> {"cursor_x"}
      [] b \in {"entry_next", "entry_back"} -> {"entry_cursor", "entry_index"}
      [] b \in {"clear", "delete_next", "delete_back"} -> {"input", "cursor_x", "entry_cursor"}
      [] b \in {"menu_next", "menu_back"} -> Fields \ {"menu_count"}

\* C24: each action changes only the fields its semantics list and carries
\* every other field over: exit and submit only the pending action,
\* input_next and input_back only the cursor offset, entry_next and
\* entry_back only the result cursor and the selected index, clear,
\* delete_next and delete_back only query, cursor offset and result cursor;
\* no action changes the page count and only menu_next and menu_back change
\* the page index. The rest of the cycle touches the pending action and the
\* selectable count only.
C24_ActionsKeepOtherFields ==
    (event.type = "Key" /\ event.bind # "") =>
        \E r \in {call_bind(event.bind, last_state)} :
            r.tag = "Ok" =>
                /\ \A f \in Fields \ MayChange(event.bind) : r.state[f] = last_state[f]
                /\ \A f \in Fields \ (MayChange(event.bind) \cup {"action", "entry_count"}) :
                      state[f] = last_state[f]

\* clear was applied to a typed query with the result cursor on the second
\* result: the selected index is carried over
C24_Witness ==
    /\ Dispatched("clear")
    /\ last_state.input # <<>>
    /\ last_state.entry_cursor
    /\ last_state.entry_index = 1
    /\ state.input = <<>>
    /\ ~state.entry_cursor
    /\ state.entry_index = 1

\* C25: a resize notification forces a redraw in that same cycle and
\* otherwise does not touch the state: query, cursor offset, result cursor,
\* selected index and page index after the cycle equal their values before
\* it, and the loop does not terminate.
C25_ResizeRedrawsOnly ==
    event.type = "Resize" =>
        /\ drawn
        /\ status = "running"
        /\ SameSelection(state, last_state)
        /\ state.menu_count = last_state.menu_count

\* a resize to another height was handled with a typed query and the result
\* cursor active; the selectable count changed with the height
C25_Witness ==
    /\ event.type = "Resize"
    /\ drawn
    /\ state.input # <<>>
    /\ state.entry_cursor
    /\ state.entry_count # last_state.entry_count

\* a call of draw_entry has returned
ValueRendered == call.op = "draw_entry" /\ call.done

\* the columns left for the value after the name and the spacing
RemainingCols == max(call.w - (Len(call.entry[1]) + SPACING), 0)

\* C26: for every terminal width, name length and value length, the value is
\* drawn in full and right-aligned when it fits in the columns remaining
\* after the name and the spacing; otherwise, whenever at least one character
\* of the value and the one-character overflow marker fit in the remaining
\* columns, the value is drawn truncated to the largest prefix that fits
\* together with the marker; only when not even one character and the marker
\* fit is the value omitted.
C26_ValueFullTruncatedOrOmitted ==
    ValueRendered =>
        LET value == call.entry[2]
        IN  IF RemainingCols >= Len(value)
            THEN ret.value = ValueDrawn("full", value, call.w - Len(value))
            ELSE IF RemainingCols >= 2
            THEN ret.value = ValueDrawn("truncated", SubSeq(value, 1, RemainingCols - 1),
                                        call.w - RemainingCols)
            ELSE ret.value.kind = "omitted"

\* C27: whenever a submit key event is processed while the result cursor is
\* inactive and the selectable count is not zero, the loop yields the value
\* of the top-ranked candidate for the current query; and in every state in
\* which the loop waits with an inactive result cursor the selected index is
\* 0, also after clear, delete_next and delete_back.
C27_InactiveCursorSubmitsTop ==
    /\ (Dispatched("submit") /\ ~last_state.entry_cursor /\ state.entry_count > 0) =>
          /\ status = "returned"
          /\ result = Ranked(state)[1].value
    /\ (Waiting /\ ~state.entry_cursor) => state.entry_index = 0

\* C28: with at least one page configured, no sequence of key, resize and
\* focus events ends the loop with the error 'invalid menu index' or
\* 'selection index out of bounds': whenever a submit is processed with a
\* selectable count above 0, the ranked list of the active page has an
\* element at the selected index, and its value is returned.
C28_NoIndexErrors ==
    menu_total > 0 =>
        /\ error \notin {"invalid menu index", "selection index out of bounds"}
        /\ state.menu_index < menu_total
        /\ (Dispatched("submit") /\ state.entry_count > 0) =>
              /\ state.entry_index < Len(Ranked(state))
              /\ status = "returned"
              /\ result = Ranked(state)[state.entry_index + 1].value

\* a submit was processed with the selected index at or above the selectable
\* count a resize had lowered: the ranked list still holds that element
C28_Witness ==
    /\ menu_total > 0
    /\ Dispatched("submit")
    /\ state.entry_count > 0
    /\ state.entry_index >= state.entry_count
    /\ status = "returned"

====
